---- MODULE Spec2Model ----
(***************************************************************************)
(* Model of xcode_cleanup.py: the registry of cleanup categories, the      *)
(* directory and command cleanup strategies, the perform_cleanup loop and  *)
(* the interactive flow of main.                                           *)
(*                                                                         *)
(* The filesystem is a map from the expanded path of every registry        *)
(* directory to Absent or to the set of its immediate child entries.  An   *)
(* entry is named by its position in the directory's listing order; an odd *)
(* entry is a plain file (os.remove), an even entry is a subdirectory tree *)
(* (shutil.rmtree).  External commands that change the world (xcrun        *)
(* simctl, osascript) are recorded in the log `executed`.                  *)
(***************************************************************************)
EXTENDS Integers, Sequences, FiniteSets, TLC

\* ---- bounds ----
NumCategories == 3      \* the model uses the first NumCategories registry entries
MaxChildren == 2        \* child entries a directory can hold
MaxExitCode == 1        \* exit codes 0..MaxExitCode of the external command
MaxCalls == 2           \* perform_cleanup calls in the function-level specification

\* ---- registry --------------------------------------------------------
\* A path is the sequence of its components; a command line is the
\* sequence of its whitespace-separated words.
CATEGORIES ==
  << [name |-> "Derived Data", type |-> "directory", default |-> TRUE,
      path |-> <<"~", "Library", "Developer", "Xcode", "DerivedData">>],
     [name |-> "Unavailable Simulators", type |-> "command", default |-> TRUE,
      path |-> <<"xcrun", "simctl", "delete", "unavailable">>],
     [name |-> "Device Support Files", type |-> "directory", default |-> TRUE,
      path |-> <<"~", "Library", "Developer", "Xcode", "iOS DeviceSupport">>],
     [name |-> "Simulator Caches", type |-> "directory", default |-> TRUE,
      path |-> <<"~", "Library", "Developer", "CoreSimulator", "Caches">>],
     [name |-> "Archives", type |-> "directory", default |-> FALSE,
      path |-> <<"~", "Library", "Developer", "Xcode", "Archives">>],
     [name |-> "Device Logs", type |-> "directory", default |-> TRUE,
      path |-> <<"~", "Library", "Developer", "Xcode", "iOS Device Logs">>],
     [name |-> "Swift Package Manager Cache", type |-> "directory", default |-> TRUE,
      path |-> <<"~", "Library", "Caches", "org.swift.swiftpm">>],
     [name |-> "Xcode Previews", type |-> "directory", default |-> TRUE,
      path |-> <<"~", "Library", "Developer", "Xcode", "Previews">>],
     [name |-> "System Caches", type |-> "directory", default |-> FALSE,
      path |-> <<"~", "Library", "Caches", "com.apple.dt.Xcode">>] >>

Registry == SubSeq(CATEGORIES, 1, NumCategories)

\* os.path.expanduser: a leading "~" component is replaced by the home directory
HomeDir == <<"Users", "dev">>

expanduser(path) ==
  IF Len(path) > 0 /\ Head(path) = "~" THEN HomeDir \o Tail(path) ELSE path

DirCategories == { i \in 1..Len(Registry) : Registry[i].type = "directory" }

DirPaths == { expanduser(Registry[i].path) : i \in DirCategories }

\* ---- filesystem ------------------------------------------------------
Absent == {-1}                      \* marker: the path does not exist

Entries == 1..MaxChildren

IsSubdir(item) == item % 2 = 0      \* os.path.isdir(item_path)

exists(efs, p) == p \in DOMAIN efs /\ efs[p] # Absent

FsStates == [DirPaths -> {Absent} \cup SUBSET Entries]

\* before a run a directory is absent or holds its first k entries, k >= 0
InitialFsStates == [DirPaths -> {Absent} \cup { 1..k : k \in 0..MaxChildren }]

\* os.listdir: the entries of a directory, in listing order
RECURSIVE listdir(_)
listdir(S) ==
  IF S = {} THEN << >>
  ELSE LET m == CHOOSE x \in S : \A y \in S : x <= y
       IN << m >> \o listdir(S \ {m})

RECURSIVE SumSizes(_)
SumSizes(S) ==
  IF S = {} THEN 0
  ELSE LET e == CHOOSE x \in S : TRUE IN e + SumSizes(S \ {e})

\* `du -sh <path>` prints "<size>\t<path>\n"; the fields of that line
DuStdout(efs, p) == << ToString(SumSizes(efs[p])) \o "K", p >>

\* outcome of running du: a return code with its stdout, or an exception
\* (TimeoutExpired after 10 s, OSError)
DuRuns == { "ok", "nonzero", "exception" }

get_directory_size(efs, path, run) ==
  LET expanded_path == expanduser(path) IN
  IF ~exists(efs, expanded_path) THEN << "Not found", 0 >>
  ELSE IF run = "ok" THEN << DuStdout(efs, expanded_path)[1], 1 >>
  ELSE << "Error", 0 >>

\* ---- program state ---------------------------------------------------
VARIABLES
  pc,           \* position in main / perform_cleanup / clean_directory
  selected,     \* selected_categories (main), categories (perform_cleanup)
  idx,          \* position of the for loop of perform_cleanup in categories
  results,      \* the results list of perform_cleanup
  size_before,  \* local of clean_directory
  pending,      \* items of os.listdir the loop of clean_directory has not reached yet
  fs,           \* the filesystem under the registry directories
  executed,     \* every external command started that changes the world: argv, exit status
  tables,       \* result tables printed by show_results
  exit_code,    \* process exit status, NotExited while running
  confirm,      \* main's confirm: TRUE once the confirmation prompt was answered yes
  faults,       \* history: names of the targets whose deletion or command raised an error
  fs0,          \* history: the filesystem when the current call/run began
  previous,     \* history: results returned by the preceding perform_cleanup call
  calls         \* history: number of perform_cleanup calls begun

vars == << pc, selected, idx, results, size_before, pending, fs, executed,
           tables, exit_code, confirm, faults, fs0, previous, calls >>

NotExited == -1

\* questionary.checkbox returns the checked values in the order of the choices
RECURSIVE SeqOfSet(_)
SeqOfSet(S) ==
  IF S = {} THEN << >>
  ELSE LET m == CHOOSE x \in S : \A y \in S : x <= y
       IN << Registry[m] >> \o SeqOfSet(S \ {m})

Selections == { SeqOfSet(S) : S \in SUBSET (1..Len(Registry)) }

\* outcomes of subprocess.run(command.split(), timeout=30)
CommandRuns ==
  { [raised |-> "", returncode |-> c] : c \in 0..MaxExitCode } \cup
  { [raised |-> e, returncode |-> -1] : e \in {"FileNotFoundError", "TimeoutExpired"} }

\* str(e) of the OSError raised by os.listdir, os.remove or shutil.rmtree
OSErrorText(what) == "Permission denied: " \o what

category == selected[idx]

\* variant: a failed target ends the loop
AppendResultAbortOnFailure(success, message, size) ==
  /\ results' = Append(results, [name |-> category.name, success |-> success,
                                 message |-> message, size |-> size])
  /\ idx' = IF success THEN idx + 1 ELSE Len(selected) + 1
  /\ pc' = "cleanup"
  /\ size_before' = ""
  /\ pending' = << >>

\* results.append({...}); progress.advance(task): back to the head of the loop
AppendResult(success, message, size) ==
  /\ results' = Append(results, [name |-> category.name, success |-> success,
                                 message |-> message, size |-> size])
  /\ idx' = idx + 1
  /\ pc' = "cleanup"
  /\ size_before' = ""
  /\ pending' = << >>

InLoop == pc = "cleanup" /\ idx <= Len(selected)

\* variant: a missing directory is created
CleanDirectoryEnterMkdir(run, listable) ==
  /\ InLoop
  /\ category.type = "directory"
  /\ LET expanded_path == expanduser(category.path) IN
       IF ~exists(fs, expanded_path)
       THEN /\ AppendResult(TRUE, << "Directory not found" >>, "0B")
            /\ fs' = [fs EXCEPT ![expanded_path] = {}]
            /\ UNCHANGED faults
       ELSE IF ~listable
       THEN /\ AppendResult(FALSE, << "Error: ", OSErrorText("listdir") >>, "0B")
            /\ faults' = faults \cup { category.name }
            /\ UNCHANGED fs
       ELSE /\ size_before' = get_directory_size(fs, category.path, run)[1]
            /\ pending' = listdir(fs[expanded_path])
            /\ pc' = "clean_dir"
            /\ UNCHANGED << results, idx, faults, fs >>
  /\ UNCHANGED << selected, executed, tables, exit_code, confirm, fs0, previous, calls >>

\* clean_directory up to the first iteration of its loop: existence check,
\* size snapshot, os.listdir
CleanDirectoryEnter(run, listable) ==
  /\ InLoop
  /\ category.type = "directory"
  /\ LET expanded_path == expanduser(category.path) IN
       IF ~exists(fs, expanded_path)
       THEN /\ AppendResult(TRUE, << "Directory not found" >>, "0B")
            /\ UNCHANGED faults
       ELSE IF ~listable
       THEN /\ AppendResult(FALSE, << "Error: ", OSErrorText("listdir") >>, "0B")
            /\ faults' = faults \cup { category.name }
       ELSE /\ size_before' = get_directory_size(fs, category.path, run)[1]
            /\ pending' = listdir(fs[expanded_path])
            /\ pc' = "clean_dir"
            /\ UNCHANGED << results, idx, faults >>
  /\ UNCHANGED << selected, fs, executed, tables, exit_code, confirm, fs0, previous, calls >>

\* variant: an item that cannot be removed is skipped and the loop goes on
RemoveItemContinue(ok) ==
  /\ pc = "clean_dir"
  /\ pending # << >>
  /\ LET expanded_path == expanduser(category.path)
         item == Head(pending) IN
       /\ fs' = IF ok THEN [fs EXCEPT ![expanded_path] = @ \ {item}] ELSE fs
       /\ faults' = IF ok THEN faults ELSE faults \cup { category.name }
       /\ pending' = Tail(pending)
       /\ UNCHANGED << pc, results, idx, size_before >>
  /\ UNCHANGED << selected, executed, tables, exit_code, confirm, fs0, previous, calls >>

\* one iteration of the loop of clean_directory: rmtree or remove of one item
RemoveItem(ok) ==
  /\ pc = "clean_dir"
  /\ pending # << >>
  /\ LET expanded_path == expanduser(category.path)
         item == Head(pending) IN
       IF ok
       THEN /\ fs' = [fs EXCEPT ![expanded_path] = @ \ {item}]
            /\ pending' = Tail(pending)
            /\ UNCHANGED << pc, results, idx, size_before, faults >>
       ELSE /\ AppendResult(FALSE,
                 << "Error: ",
                    OSErrorText(IF IsSubdir(item) THEN "rmtree " \o ToString(item)
                                ELSE "remove " \o ToString(item)) >>,
                 "0B")
            /\ faults' = faults \cup { category.name }
            /\ UNCHANGED fs
  /\ UNCHANGED << selected, executed, tables, exit_code, confirm, fs0, previous, calls >>

\* variant: the emptied directory is removed as well
CleanDirectoryReturnRmdir ==
  /\ pc = "clean_dir"
  /\ pending = << >>
  /\ AppendResult(TRUE, << "Cleaned successfully" >>, size_before)
  /\ fs' = [fs EXCEPT ![expanduser(category.path)] = Absent]
  /\ UNCHANGED << selected, executed, tables, exit_code, confirm, faults, fs0,
                  previous, calls >>

\* variant: the size is measured after the deletion
CleanDirectoryReturnSizeAfter ==
  /\ pc = "clean_dir"
  /\ pending = << >>
  /\ AppendResult(TRUE, << "Cleaned successfully" >>,
                  IF size_before = "Error" THEN "Error"
                  ELSE get_directory_size(fs, category.path, "ok")[1])
  /\ UNCHANGED << selected, fs, executed, tables, exit_code, confirm, faults, fs0,
                  previous, calls >>

\* the loop of clean_directory is exhausted
CleanDirectoryReturn ==
  /\ pc = "clean_dir"
  /\ pending = << >>
  /\ AppendResult(TRUE, << "Cleaned successfully" >>, size_before)
  /\ UNCHANGED << selected, fs, executed, tables, exit_code, confirm, faults, fs0,
                  previous, calls >>

\* variant: a non-zero exit status is reported as a failure
execute_command_strict(run) ==
  IF run.raised # "" THEN << FALSE, << "Error: ", run.raised >> >>
  ELSE IF run.returncode = 0 THEN << TRUE, << "Executed successfully" >> >>
  ELSE << FALSE, << "Error: ", "exit status " \o ToString(run.returncode) >> >>

execute_command(run) ==
  IF run.raised # "" THEN << FALSE, << "Error: ", run.raised >> >>
  ELSE IF run.returncode = 0 THEN << TRUE, << "Executed successfully" >> >>
  ELSE << TRUE, << "No unavailable simulators found" >> >>

\* variant: the command branch appends no result
ExecuteCommandNoResult(run) ==
  /\ InLoop
  /\ category.type = "command"
  /\ idx' = idx + 1
  /\ executed' = IF run.raised = "FileNotFoundError" THEN executed
                 ELSE Append(executed, [argv |-> category.path,
                                        returncode |-> run.returncode])
  /\ faults' = IF run.raised # "" THEN faults \cup { category.name } ELSE faults
  /\ UNCHANGED << pc, results, size_before, pending, selected, fs, tables, exit_code,
                  confirm, fs0, previous, calls >>

\* the command branch of perform_cleanup
ExecuteCommand(run) ==
  /\ InLoop
  /\ category.type = "command"
  /\ LET r == execute_command(run) IN AppendResult(r[1], r[2], "N/A")
  /\ executed' = IF run.raised = "FileNotFoundError" THEN executed
                 ELSE Append(executed, [argv |-> category.path,
                                        returncode |-> run.returncode])
  /\ faults' = IF run.raised # "" THEN faults \cup { category.name } ELSE faults
  /\ UNCHANGED << selected, fs, tables, exit_code, confirm, fs0, previous, calls >>

\* the for loop of perform_cleanup is exhausted: return results
PerformCleanupReturn ==
  /\ pc = "cleanup"
  /\ idx > Len(selected)
  /\ pc' = "report"
  /\ UNCHANGED << selected, idx, results, size_before, pending, fs, executed,
                  tables, exit_code, confirm, faults, fs0, previous, calls >>

\* ---- main ------------------------------------------------------------
Running == { "start", "select", "confirm", "cleanup", "clean_dir", "report", "ask_trash" }

\* show_header, the details prompt and show_category_details (read-only)
AskDetails(show_details) ==
  /\ pc = "start"
  /\ pc' = "select"
  /\ UNCHANGED << selected, idx, results, size_before, pending, fs, executed,
                  tables, exit_code, confirm, faults, fs0, previous, calls >>

\* variant: no early return on an empty selection
SelectCategoriesNoGuard(sel) ==
  /\ pc = "select"
  /\ selected' = sel
  /\ pc' = "confirm"
  /\ UNCHANGED << idx, results, size_before, pending, fs, executed, tables,
                  exit_code, confirm, faults, fs0, previous, calls >>

\* select_categories and the early return of main on an empty selection;
\* an aborted prompt (None) is the empty selection
SelectCategories(sel) ==
  /\ pc = "select"
  /\ selected' = sel
  /\ IF sel = << >>
     THEN pc' = "done" /\ exit_code' = 0
     ELSE pc' = "confirm" /\ UNCHANGED exit_code
  /\ UNCHANGED << idx, results, size_before, pending, fs, executed, tables,
                  confirm, faults, fs0, previous, calls >>

\* variant: the answer to the confirmation prompt is not tested
ConfirmIgnored(answer) ==
  /\ pc = "confirm"
  /\ confirm' = answer
  /\ pc' = "cleanup"
  /\ results' = << >>
  /\ idx' = 1
  /\ calls' = calls + 1
  /\ UNCHANGED << selected, size_before, pending, fs, executed, tables, faults,
                  fs0, previous, exit_code >>

\* the confirmation prompt; on yes perform_cleanup is entered (results = [])
Confirm(answer) ==
  /\ pc = "confirm"
  /\ confirm' = answer
  /\ IF ~answer
     THEN /\ pc' = "done"
          /\ exit_code' = 0
          /\ UNCHANGED << idx, results, calls >>
     ELSE /\ pc' = "cleanup"
          /\ results' = << >>
          /\ idx' = 1
          /\ calls' = calls + 1
          /\ UNCHANGED exit_code
  /\ UNCHANGED << selected, size_before, pending, fs, executed, tables, faults,
                  fs0, previous >>

show_results ==
  /\ pc = "report"
  /\ tables' = Append(tables, results)
  /\ pc' = "ask_trash"
  /\ UNCHANGED << selected, idx, results, size_before, pending, fs, executed,
                  exit_code, confirm, faults, fs0, previous, calls >>

OsascriptArgv == << "osascript", "-e", "tell application \"Finder\" to empty trash" >>

\* the empty-trash prompt and the end of main
EmptyTrash(empty_trash, started) ==
  /\ pc = "ask_trash"
  /\ executed' = IF empty_trash /\ started
                 THEN Append(executed, [argv |-> OsascriptArgv, returncode |-> 0])
                 ELSE executed
  /\ pc' = "done"
  /\ exit_code' = 0
  /\ UNCHANGED << selected, idx, results, size_before, pending, fs, tables,
                  confirm, faults, fs0, previous, calls >>

\* variant: the interrupt is handled as an internal error
KeyboardInterruptExitOne ==
  /\ pc \in Running
  /\ pc' = "cancelled"
  /\ exit_code' = 1
  /\ results' = << >>
  /\ idx' = 0
  /\ size_before' = ""
  /\ pending' = << >>
  /\ UNCHANGED << selected, fs, executed, tables, confirm, faults, fs0, previous, calls >>

\* Ctrl-C: KeyboardInterrupt is not an Exception, so no handler below main
\* catches it; the frames of clean_directory and perform_cleanup are unwound
\* and main exits with status 0
KeyboardInterrupt ==
  /\ pc \in Running
  /\ pc' = "cancelled"
  /\ exit_code' = 0
  /\ results' = << >>
  /\ idx' = 0
  /\ size_before' = ""
  /\ pending' = << >>
  /\ UNCHANGED << selected, fs, executed, tables, confirm, faults, fs0, previous, calls >>

\* perform_cleanup is called again with the same argument after it returned
CallAgain ==
  /\ pc = "report"
  /\ calls < MaxCalls
  /\ previous' = results
  /\ results' = << >>
  /\ idx' = 1
  /\ faults' = {}
  /\ fs0' = fs
  /\ calls' = calls + 1
  /\ pc' = "cleanup"
  /\ UNCHANGED << selected, size_before, pending, fs, executed, tables, exit_code,
                  confirm >>

Cleanup ==
  \/ \E run \in DuRuns, listable \in BOOLEAN : CleanDirectoryEnter(run, listable)
  \/ \E ok \in BOOLEAN : RemoveItem(ok)
  \/ CleanDirectoryReturn
  \/ \E run \in CommandRuns : ExecuteCommand(run)
  \/ PerformCleanupReturn

\* ---- the whole program ----
Init ==
  /\ pc = "start"
  /\ selected = << >>
  /\ idx = 0
  /\ results = << >>
  /\ size_before = ""
  /\ pending = << >>
  /\ fs \in InitialFsStates
  /\ executed = << >>
  /\ tables = << >>
  /\ exit_code = NotExited
  /\ confirm = FALSE
  /\ faults = {}
  /\ fs0 = fs
  /\ previous = << >>
  /\ calls = 0

Next ==
  \/ \E show_details \in BOOLEAN : AskDetails(show_details)
  \/ \E sel \in Selections : SelectCategories(sel)
  \/ \E answer \in BOOLEAN : Confirm(answer)
  \/ Cleanup
  \/ show_results
  \/ \E empty_trash \in BOOLEAN, started \in BOOLEAN : EmptyTrash(empty_trash, started)
  \/ KeyboardInterrupt

Spec == Init /\ [][Next]_vars

\* ---- perform_cleanup as a function: any argument, the empty list included ----
InitCleanup ==
  /\ pc = "cleanup"
  /\ selected \in Selections
  /\ idx = 1
  /\ results = << >>
  /\ size_before = ""
  /\ pending = << >>
  /\ fs \in InitialFsStates
  /\ executed = << >>
  /\ tables = << >>
  /\ exit_code = NotExited
  /\ confirm = TRUE
  /\ faults = {}
  /\ fs0 = fs
  /\ previous = << >>
  /\ calls = 1

NextCleanup ==
  \/ Cleanup
  \/ KeyboardInterrupt

SpecCleanup == InitCleanup /\ [][NextCleanup]_vars

\* ---- one target cleaned repeatedly ----
InitRepeat ==
  /\ InitCleanup
  /\ Len(selected) = 1

NextRepeat ==
  \/ Cleanup
  \/ CallAgain

SpecRepeat == InitRepeat /\ [][NextRepeat]_vars

TypeOK ==
  /\ pc \in Running \cup { "done", "cancelled" }
  /\ selected \in Selections
  /\ idx \in 0..(Len(selected) + 1)
  /\ fs \in FsStates
  /\ exit_code \in { NotExited, 0 }
  /\ pending \in Seq(Entries)

\* ---- properties ------------------------------------------------------
CategoryNamed(n) == CHOOSE c \in { Registry[i] : i \in 1..Len(Registry) } : c.name = n

IsDirOutcome(r) == CategoryNamed(r.name).type = "directory"

IsCommandOutcome(r) == CategoryNamed(r.name).type = "command"

PathOfOutcome(r) == expanduser(CategoryNamed(r.name).path)

SelectedDirPaths ==
  { expanduser(selected[i].path) :
      i \in { j \in DOMAIN selected : selected[j].type = "directory" } }

NotFoundOutcome(n) ==
  [name |-> n, success |-> TRUE, message |-> << "Directory not found" >>, size |-> "0B"]

\* the size du reports for the directory as it was when the call began
PreSize(p) == DuStdout(fs0, p)[1]

InCleanup == pc \in { "cleanup", "clean_dir" }

\* C1: when perform_cleanup returns, results has one outcome per selected
\* target: the same length as the argument, and the i-th outcome carries the
\* name of the i-th target (the empty argument included).
C1_OneOutcomePerTarget ==
  pc = "report" =>
    /\ Len(results) = Len(selected)
    /\ \A i \in 1..Len(selected) : results[i].name = selected[i].name

C1_Witness ==
  /\ pc = "report"
  /\ Len(selected) >= 3
  /\ Len(results) = Len(selected)
  /\ results[3].name = selected[3].name
  /\ \E i \in DOMAIN results : ~results[i].success

\* C2: when exactly one of the N selected targets fails, perform_cleanup still
\* returns N outcomes, exactly one of them with success = FALSE, and every
\* outcome's status depends on nothing but that target's own failure.
C2_FailureIsolation ==
  (pc = "report" /\ Cardinality(faults) = 1) =>
    /\ Len(results) = Len(selected)
    /\ Cardinality({ i \in DOMAIN results : ~results[i].success }) = 1
    /\ \A i \in DOMAIN results :
         results[i].success = (selected[i].name \notin faults)

C2_Witness ==
  /\ pc = "report"
  /\ Cardinality(faults) = 1
  /\ Len(results) >= 3
  /\ ~results[1].success
  /\ results[2].success
  /\ results[3].success
  /\ IsDirOutcome(results[3])
  /\ fs0[PathOfOutcome(results[3])] \notin { Absent, {} }
  /\ fs[PathOfOutcome(results[3])] = {}

\* C3: whenever clean_directory has returned success for a directory that
\* existed, that directory still exists and has no child entry left.
C3_DirectoryKeptAndEmptied ==
  \A i \in DOMAIN results :
    (IsDirOutcome(results[i]) /\ results[i].success
       /\ fs0[PathOfOutcome(results[i])] # Absent) =>
      /\ fs[PathOfOutcome(results[i])] # Absent
      /\ fs[PathOfOutcome(results[i])] = {}

C3_Witness ==
  \E i \in DOMAIN results :
    /\ IsDirOutcome(results[i])
    /\ results[i].success
    /\ fs0[PathOfOutcome(results[i])] # Absent
    /\ Cardinality(fs0[PathOfOutcome(results[i])]) >= 2
    /\ fs[PathOfOutcome(results[i])] = {}

\* C4 as claimed: an interrupt during a cleanup run takes effect only between
\* targets (never inside clean_directory) and leaves the outcomes produced so
\* far intact.
C4_InterruptOnlyBetweenTargets ==
  [][ (InCleanup /\ pc' = "cancelled") =>
        (pc = "cleanup" /\ results' = results) ]_vars

\* C4 as amended: an interrupt during a cleanup run ends the run at the point
\* where it arrives, also in the middle of a target: the outcomes produced so
\* far are discarded and never reported, the filesystem is left as it is at
\* that point, the process exits with status 0, and nothing runs afterwards
\* (no later target is started).
C4_InterruptEndsRun ==
  [][ /\ pc # "cancelled"
      /\ (InCleanup /\ pc' = "cancelled") =>
           /\ exit_code' = 0
           /\ results' = << >>
           /\ tables' = << >>
           /\ fs' = fs
           /\ executed' = executed ]_vars

C4_Witness ==
  /\ pc = "cancelled"
  /\ exit_code = 0
  /\ tables = << >>
  /\ \E i, j \in DOMAIN selected :
       /\ j < i
       /\ selected[i].type = "directory"
       /\ selected[j].type = "directory"
       /\ selected[i].name \notin faults
       /\ fs[expanduser(selected[i].path)] # fs0[expanduser(selected[i].path)]
       /\ fs[expanduser(selected[i].path)] # {}
       /\ fs[expanduser(selected[j].path)] # fs0[expanduser(selected[j].path)]
       /\ fs[expanduser(selected[j].path)] = {}

\* C5: a command outcome has success = TRUE whenever the command ran to
\* completion, with exit status zero or not, and success = FALSE exactly when
\* the invocation raised (missing executable, timeout); the message of a
\* failed outcome starts with "Error".
C5_CommandStatus ==
  \A i \in DOMAIN results :
    IsCommandOutcome(results[i]) =>
      /\ results[i].success = (results[i].name \notin faults)
      /\ ~results[i].success => Head(results[i].message) = "Error: "
      /\ \A k \in DOMAIN executed :
           (executed[k].argv = CategoryNamed(results[i].name).path
              /\ executed[k].returncode >= 0) => results[i].success

C5_Witness ==
  \E i \in DOMAIN results, k \in DOMAIN executed :
    /\ IsCommandOutcome(results[i])
    /\ executed[k].argv = CategoryNamed(results[i].name).path
    /\ executed[k].returncode > 0
    /\ results[i].success

\* C6: once the removal of a child has failed, the directory's outcome is a
\* failure whose message carries the error text and whose size is "0B", and
\* neither the failing step nor any later step removes a further child of
\* that directory.
C6_AbortOnRemovalFailure ==
  [][ \A i \in DOMAIN results' :
        (IsDirOutcome(results'[i]) /\ results'[i].name \in faults') =>
          /\ ~results'[i].success
          /\ results'[i].size = "0B"
          /\ Len(results'[i].message) = 2
          /\ Head(results'[i].message) = "Error: "
          /\ fs'[PathOfOutcome(results'[i])] = fs[PathOfOutcome(results'[i])] ]_vars

C6_Witness ==
  \E i \in DOMAIN results :
    /\ IsDirOutcome(results[i])
    /\ results[i].name \in faults
    /\ ~results[i].success
    /\ results[i].size = "0B"
    /\ fs[PathOfOutcome(results[i])] # fs0[PathOfOutcome(results[i])]
    /\ fs[PathOfOutcome(results[i])] # {}

\* C7: for a directory target whose path does not exist, clean_directory
\* returns success with size "0B" and leaves the filesystem as it was; a second
\* call in the resulting state returns the identical outcome.
C7_AbsentIsIdempotent ==
  /\ \A i \in DOMAIN results :
       (IsDirOutcome(results[i]) /\ fs0[PathOfOutcome(results[i])] = Absent) =>
         /\ results[i] = NotFoundOutcome(results[i].name)
         /\ fs = fs0
  /\ \A i \in DOMAIN previous, j \in DOMAIN results :
       (previous[i].name = results[j].name
          /\ previous[i] = NotFoundOutcome(previous[i].name)) =>
         results[j] = previous[i]

C7_Witness ==
  /\ calls >= 2
  /\ \E i \in DOMAIN previous, j \in DOMAIN results :
       /\ IsDirOutcome(previous[i])
       /\ previous[i] = NotFoundOutcome(previous[i].name)
       /\ results[j] = previous[i]
       /\ fs[PathOfOutcome(results[j])] = Absent

C9_SizeIsPreDeletionSnapshot ==
  /\ pc = "clean_dir" =>
       size_before \in { PreSize(expanduser(category.path)), "Error" }
  /\ \A i \in DOMAIN results :
       (IsDirOutcome(results[i]) /\ results[i].success
          /\ fs0[PathOfOutcome(results[i])] # Absent) =>
         /\ results[i].size \in { PreSize(PathOfOutcome(results[i])), "Error" }
         /\ fs[PathOfOutcome(results[i])] = {}

C9_Witness ==
  \E i, j \in DOMAIN results :
    /\ IsDirOutcome(results[i])
    /\ IsDirOutcome(results[j])
    /\ results[i].success
    /\ results[j].success
    /\ fs0[PathOfOutcome(results[i])] \notin { Absent, {} }
    /\ fs0[PathOfOutcome(results[j])] \notin { Absent, {} }
    /\ results[i].size = "Error"
    /\ results[j].size = PreSize(PathOfOutcome(results[j]))
    /\ results[j].size # get_directory_size(fs, CategoryNamed(results[j].name).path, "ok")[1]
    /\ fs[PathOfOutcome(results[i])] = {}

\* C10 as claimed: after an empty selection the report step has rendered an
\* empty result table and the process has exited with status 0.
C10_EmptySelectionReported ==
  (pc = "done" /\ selected = << >>) =>
    /\ tables = << << >> >>
    /\ exit_code = 0

\* C10 as amended: after an empty selection main returns at once: perform_cleanup
\* is not called, no outcome is produced, show_results renders nothing, nothing
\* is deleted or executed, and the process exits with status 0.
C10_EmptySelectionExits ==
  (pc = "done" /\ selected = << >>) =>
    /\ calls = 0
    /\ results = << >>
    /\ tables = << >>
    /\ fs = fs0
    /\ executed = << >>
    /\ exit_code = 0

C10_Witness ==
  /\ pc = "done"
  /\ selected = << >>
  /\ exit_code = 0
  /\ tables = << >>
  /\ \E p \in DirPaths : fs[p] \notin { Absent, {} }

====
